---- MODULE Spec2Model ----
(***************************************************************************)
(* A model of rustpack (src/src/main.rs): the binary diff/patch engine,    *)
(* the embedded launcher script (BOOTSTRAP_SCRIPT), the package assembler  *)
(* (build_package) and watch mode (watch_and_build).  Each is a state      *)
(* machine of its own; a machine that is not running rests at "idle".      *)
(* main's choice of the targets and assets of a build is a machine as well.*)
(***************************************************************************)
EXTENDS Integers, Sequences, FiniteSets, TLC

VARIABLES
    \* ---- binary diff/patch engine
    ppc,            \* position of the patch tool: idle, start, created, applied, failed
    old_data,       \* bytes of the old version (create_binary_patch: old_data)
    new_data,       \* bytes of the new version (create_binary_patch: new_data)
    patch_file,     \* the patch file: its lines, in order
    output_file,    \* the file at output_path of --apply-patch
    output_file_before, \* that file as it was when --apply-patch was called
    \* ---- launcher (BOOTSTRAP_SCRIPT run as a self-extracting artifact)
    lpc,            \* position in the script: idle, start, extracted, host, platform,
                    \*   arch, assets, resolved, done; exited once the launched
                    \*   binary has exited
    payload,        \* the payload after the marker line: info.json's targets, the
                    \*   relative paths of its files, whether rustpack/assets exists
    uname_s,        \* what `uname -s` prints on the host
    uname_m,        \* what `uname -m` prints on the host
    args,           \* the script's arguments, "$@"
    KERNEL,         \* shell variable KERNEL
    PLATFORM,       \* shell variable PLATFORM
    ARCH,           \* shell variable ARCH
    BINARY_PATH,    \* shell variable BINARY_PATH
    assets_env,     \* whether RUSTPACK_ASSETS_DIR is exported
    temp_dir,       \* whether the temporary extraction directory exists
    launched,       \* the process image exec put in place of the shell, if any
    exit_status,    \* the shell's exit status; Running while it has not exited
    stdout,         \* the lines the script has printed
    \* ---- package assembler (build_package)
    bpc,            \* position in build_package: idle, start, targets, license,
                    \*   manifest, archive, writing, permissions, sign, done
    b_targets,      \* the targets build_package is called with
    b_assets,       \* build_config.assets
    create_zip,     \* the create_zip parameter
    cargo_runs,     \* the targets cargo was run for, in order
    target_infos,   \* the local target_infos
    tree,           \* the relative paths of the files under rustpack_dir
    info_json,      \* the manifest written to rustpack_dir/info.json
    output_before,  \* the file at output_name when build_package was called
    artifact,       \* the file at output_name
    build_result,   \* what build_package returned: none (running), Ok, or the error
    \* ---- watch mode (watch_and_build)
    wpc,            \* position in watch_and_build: idle, start, initial (the initial
                    \*   build runs), recv (blocked in rx.recv()), building (a
                    \*   rebuild runs), failed (watch_and_build returned an error)
    rx_queued,      \* the number of notifications in the channel
    last_build_elapsed, \* last_build.elapsed(), in whole seconds, counted up to Cap
    in_flight,      \* the number of build_package calls that have not returned
    last_outcome,   \* what the last rebuild printed: none, ok (Rebuild successful),
                    \*   failed (Build failed)
    since_build_start, \* seconds since the last build_package call was made
    since_build_end,   \* seconds since the last build_package call returned
    last_read,      \* what the last notification read led to: none, rebuild, dropped
    owed,           \* a notification arrived during a rebuild, and no rebuild has
                    \*   started since
    \* ---- main, on the way to build_package
    mpc,            \* position in main: idle, start, called (build_package was called)
    opt_targets,    \* the --targets option, split at the commas
    opt_assets,     \* the --assets option, split at the commas
    opt_update_url, \* the --update-url option
    config_targets, \* `targets` of RustPack.toml
    config_assets,  \* `assets` of RustPack.toml
    host_target     \* what get_current_target() returns

patchVars == <<ppc, old_data, new_data, patch_file, output_file, output_file_before>>

launchVars == <<lpc, payload, uname_s, uname_m, args, KERNEL, PLATFORM, ARCH,
                BINARY_PATH, assets_env, temp_dir, launched, exit_status, stdout>>

buildVars == <<bpc, b_targets, b_assets, create_zip, cargo_runs, target_infos, tree,
               info_json, output_before, artifact, build_result>>

watchVars == <<wpc, rx_queued, last_build_elapsed, in_flight, last_outcome,
               since_build_start, since_build_end, last_read, owed>>

mainVars == <<mpc, opt_targets, opt_assets, opt_update_url, config_targets,
              config_assets, host_target>>

vars == <<patchVars, launchVars, buildVars, watchVars, mainVars>>

(***************************************************************************)
(* Bounds of the model.                                                    *)
(***************************************************************************)
MaxLen == 6

MaxTargets == 2

\* The longest original and the most lines of a patch file given to --apply-patch.
MaxOrigLen == 2

MaxLines == 2

\* The most notifications the channel of watch mode holds in the model.
MaxQueue == 2

\* The byte values the model draws file contents from.
ByteVals == {0, 200}

\* A file: absent, or present with its bytes.
NoFile == [exists |-> FALSE, bytes |-> <<>>]

FileOf(bytes) == [exists |-> TRUE, bytes |-> bytes]

(***************************************************************************)
(* Strings.  A string is a TLA+ string; characters are strings of length 1.*)
(***************************************************************************)
CharAt(s, i) == SubSeq(s, i, i)

RECURSIVE SeqsUpTo(_, _)
SeqsUpTo(S, n) ==
    IF n = 0 THEN {<<>>}
    ELSE LET shorter == SeqsUpTo(S, n - 1)
         IN  shorter \cup {Append(q, x) : q \in {r \in shorter : Len(r) = n - 1}, x \in S}

\* The index of the first occurrence of pat in s at or after position i, 0 if none.
RECURSIVE FindFrom(_, _, _)
FindFrom(s, pat, i) ==
    IF i + Len(pat) - 1 > Len(s) THEN 0
    ELSE IF SubSeq(s, i, i + Len(pat) - 1) = pat THEN i
    ELSE FindFrom(s, pat, i + 1)

Contains(s, pat) == FindFrom(s, pat, 1) # 0

(***************************************************************************)
(* Decimal numbers: format!("{}", n) and str::parse::<usize>.              *)
(***************************************************************************)
Digits == "0123456789"

DigitChar(d) == CharAt(Digits, d + 1)

RECURSIVE ToDecimal(_)
ToDecimal(n) ==
    IF n < 10 THEN DigitChar(n)
    ELSE ToDecimal(n \div 10) \o DigitChar(n % 10)

IsDigit(c) == \E d \in 0..9 : DigitChar(d) = c

DigitVal(c) == CHOOSE d \in 0..9 : DigitChar(d) = c

ParseError == -1

RECURSIVE ParseDigits(_, _, _)
ParseDigits(s, i, acc) ==
    IF i > Len(s) THEN acc
    ELSE IF IsDigit(CharAt(s, i)) THEN ParseDigits(s, i + 1, acc * 10 + DigitVal(CharAt(s, i)))
    ELSE ParseError

\* parse::<usize>: an optional "+", then at least one digit; ParseError otherwise.
ParseUsize(s) ==
    LET body == IF Len(s) > 0 /\ CharAt(s, 1) = "+" THEN SubSeq(s, 2, Len(s)) ELSE s
    IN  IF Len(body) = 0 THEN ParseError ELSE ParseDigits(body, 1, 0)

(***************************************************************************)
(* Base64, standard alphabet, padded: base64::encode and base64::decode.   *)
(***************************************************************************)
B64Chars == "ABCDEFGHIJKLMNOPQRSTUVWXYZabcdefghijklmnopqrstuvwxyz0123456789+/"

B64Char(n) == CharAt(B64Chars, n + 1)

IsB64Char(c) == \E n \in 0..63 : B64Char(n) = c

B64Val(c) == CHOOSE n \in 0..63 : B64Char(n) = c

RECURSIVE Base64Encode(_)
Base64Encode(data) ==
    IF Len(data) = 0 THEN ""
    ELSE IF Len(data) = 1 THEN
        LET n == data[1] * 65536
        IN  B64Char(n \div 262144) \o B64Char((n \div 4096) % 64) \o "=="
    ELSE IF Len(data) = 2 THEN
        LET n == data[1] * 65536 + data[2] * 256
        IN  B64Char(n \div 262144) \o B64Char((n \div 4096) % 64)
                \o B64Char((n \div 64) % 64) \o "="
    ELSE
        LET n == data[1] * 65536 + data[2] * 256 + data[3]
        IN  B64Char(n \div 262144) \o B64Char((n \div 4096) % 64)
                \o B64Char((n \div 64) % 64) \o B64Char(n % 64)
                \o Base64Encode(SubSeq(data, 4, Len(data)))

\* The result of a decoding or of an application: the bytes, or a failure.
Ok(bytes) == [ok |-> TRUE, bytes |-> bytes]

Failed == [ok |-> FALSE, bytes |-> <<>>]

\* The bytes of one group of four characters (the last group may be padded).
B64Group(g) ==
    IF IsB64Char(CharAt(g, 1)) /\ IsB64Char(CharAt(g, 2)) THEN
        LET a == B64Val(CharAt(g, 1)) * 262144 + B64Val(CharAt(g, 2)) * 4096
        IN  IF SubSeq(g, 3, 4) = "==" THEN
                IF a % 65536 = 0 THEN Ok(<<a \div 65536>>) ELSE Failed
            ELSE IF IsB64Char(CharAt(g, 3)) THEN
                LET b == a + B64Val(CharAt(g, 3)) * 64
                IN  IF CharAt(g, 4) = "=" THEN
                        IF b % 256 = 0 THEN Ok(<<b \div 65536, (b \div 256) % 256>>)
                        ELSE Failed
                    ELSE IF IsB64Char(CharAt(g, 4)) THEN
                        LET n == b + B64Val(CharAt(g, 4))
                        IN  Ok(<<n \div 65536, (n \div 256) % 256, n % 256>>)
                    ELSE Failed
            ELSE Failed
    ELSE Failed

RECURSIVE Base64Decode(_)
Base64Decode(s) ==
    IF Len(s) = 0 THEN Ok(<<>>)
    ELSE IF Len(s) < 4 THEN Failed
    ELSE LET g == B64Group(SubSeq(s, 1, 4))
             rest == SubSeq(s, 5, Len(s))
         IN  IF ~g.ok THEN Failed
             ELSE IF Len(g.bytes) < 3 /\ Len(rest) > 0 THEN Failed
             ELSE LET tail == Base64Decode(rest)
                  IN  IF tail.ok THEN Ok(g.bytes \o tail.bytes) ELSE Failed

(***************************************************************************)
(* create_binary_patch.  Indices are the code's (0-based); the byte at     *)
(* index i of a sequence s is s[i + 1].                                    *)
(***************************************************************************)
MinMatchRun == 4

\* The test that ends the scan for diff_start: index i is a mismatch.
BytesDifferOffByOne(old, new, i) == i + 1 >= Len(old) \/ new[i + 1] # old[i + 1]

BytesDiffer(old, new, i) == i >= Len(old) \/ new[i + 1] # old[i + 1]

RECURSIVE ScanDiffStart(_, _, _)
ScanDiffStart(old, new, diff_start) ==
    IF diff_start < Len(new) /\ ~BytesDiffer(old, new, diff_start)
    THEN ScanDiffStart(old, new, diff_start + 1)
    ELSE diff_start

RECURSIVE CountMatches(_, _, _, _)
CountMatches(old, new, diff_end, matches) ==
    IF /\ matches < MinMatchRun
       /\ diff_end + matches < Len(new)
       /\ diff_end + matches < Len(old)
       /\ new[diff_end + matches + 1] = old[diff_end + matches + 1]
    THEN CountMatches(old, new, diff_end, matches + 1)
    ELSE matches

RECURSIVE ScanDiffEnd(_, _, _)
ScanDiffEnd(old, new, diff_end) ==
    IF diff_end < Len(new)
    THEN IF /\ diff_end < Len(old)
            /\ new[diff_end + 1] = old[diff_end + 1]
            /\ CountMatches(old, new, diff_end, 1) >= MinMatchRun
         THEN diff_end
         ELSE ScanDiffEnd(old, new, diff_end + 1)
    ELSE diff_end

\* A diff that records each length one too long.
RECURSIVE PatchEntriesLongLength(_, _, _)
PatchEntriesLongLength(old, new, offset) ==
    IF offset < Len(new)
    THEN LET diff_start == ScanDiffStart(old, new, offset)
         IN  IF diff_start >= Len(new) THEN <<>>
             ELSE LET diff_end == ScanDiffEnd(old, new, diff_start + 1)
                  IN  <<[offset |-> diff_start,
                         length |-> diff_end - diff_start + 1,
                         data   |-> SubSeq(new, diff_start + 1, diff_end)]>>
                      \o PatchEntriesLongLength(old, new, diff_end)
    ELSE <<>>

RECURSIVE PatchEntries(_, _, _)
PatchEntries(old, new, offset) ==
    IF offset < Len(new)
    THEN LET diff_start == ScanDiffStart(old, new, offset)
         IN  IF diff_start >= Len(new) THEN <<>>
             ELSE LET diff_end == ScanDiffEnd(old, new, diff_start + 1)
                  IN  <<[offset |-> diff_start,
                         length |-> diff_end - diff_start,
                         data   |-> SubSeq(new, diff_start + 1, diff_end)]>>
                      \o PatchEntries(old, new, diff_end)
    ELSE <<>>

\* writeln!(patch_file, "{}:{}:{}", offset, length, base64::encode(data))
PatchLine(e) ==
    ToDecimal(e.offset) \o ":" \o ToDecimal(e.length) \o ":" \o Base64Encode(e.data)

PatchLines(entries) == [k \in 1..Len(entries) |-> PatchLine(entries[k])]

(***************************************************************************)
(* apply_binary_patch.                                                     *)
(***************************************************************************)
\* line.splitn(3, ':'): at most three parts, the last one keeping its colons.
Splitn3(line) ==
    LET c1 == FindFrom(line, ":", 1)
    IN  IF c1 = 0 THEN <<line>>
        ELSE LET c2 == FindFrom(line, ":", c1 + 1)
             IN  IF c2 = 0
                 THEN <<SubSeq(line, 1, c1 - 1), SubSeq(line, c1 + 1, Len(line))>>
                 ELSE <<SubSeq(line, 1, c1 - 1), SubSeq(line, c1 + 1, c2 - 1),
                        SubSeq(line, c2 + 1, Len(line))>>

\* An overwrite that starts one byte late.
OverwriteOffByOne(output_data, offset, data) ==
    [k \in 1..Len(output_data) |->
        IF k - 1 > offset /\ k - 2 - offset < Len(data)
        THEN data[k - 1 - offset]
        ELSE output_data[k]]

\* output_data.resize(n, 0) when n exceeds the length.
Resize(output_data, n) ==
    IF n > Len(output_data)
    THEN output_data \o [k \in 1..(n - Len(output_data)) |-> 0]
    ELSE output_data

\* for (i, byte) in data: if offset + i < len { output_data[offset + i] = byte }
Overwrite(output_data, offset, data) ==
    [k \in 1..Len(output_data) |->
        IF k - 1 >= offset /\ k - 1 - offset < Len(data)
        THEN data[k - offset]
        ELSE output_data[k]]

\* The loop over the lines, from line k on: the output bytes, or the first error.
RECURSIVE ApplyLines(_, _, _)
ApplyLines(output_data, lines, k) ==
    IF k > Len(lines) THEN Ok(output_data)
    ELSE LET parts == Splitn3(lines[k])
         IN  IF Len(parts) # 3 THEN ApplyLines(output_data, lines, k + 1)
             ELSE LET offset == ParseUsize(parts[1])
                      length == ParseUsize(parts[2])
                      data   == Base64Decode(parts[3])
                  IN  IF offset = ParseError \/ length = ParseError \/ ~data.ok
                      THEN Failed
                      ELSE ApplyLines(Overwrite(Resize(output_data, offset + length),
                                                offset, data.bytes),
                                      lines, k + 1)

ApplyPatch(original_data, lines) == ApplyLines(original_data, lines, 1)

(***************************************************************************)
(* The patch tool: --create-patch, then --apply-patch on the old version.  *)
(***************************************************************************)
Bytes == SeqsUpTo(ByteVals, MaxLen)

PatchIdle ==
    /\ ppc = "idle"
    /\ old_data = <<>>
    /\ new_data = <<>>
    /\ patch_file = <<>>
    /\ output_file = NoFile
    /\ output_file_before = NoFile

InitPatchTool ==
    /\ ppc = "start"
    /\ old_data \in Bytes
    /\ new_data \in Bytes
    /\ patch_file = <<>>
    /\ output_file = NoFile
    /\ output_file_before = NoFile

\* Patch files as they may be handed to --apply-patch: lines in the format
\* create_binary_patch writes (the data as long as, shorter than, or longer than the
\* length field says), and lines that are not in that format.
WrittenEntries ==
    {[offset |-> o, length |-> Len(d), data |-> d] :
        o \in {0, 1, 3}, d \in {<<200>>, <<0, 200>>}}

OddEntries ==
    {[offset |-> 0, length |-> 2, data |-> <<200>>],
     [offset |-> 1, length |-> 1, data |-> <<200, 200>>]}

OtherLines ==
    {"", "garbage", "1:2", "0:1:yA==:extra", "x:1:yA==", "0:1:@@@@"}

PatchLineSamples == {PatchLine(e) : e \in WrittenEntries \cup OddEntries} \cup OtherLines

\* --apply-patch on an original and a patch file from anywhere.
InitApplyTool ==
    /\ ppc = "created"
    /\ old_data \in SeqsUpTo(ByteVals, MaxOrigLen)
    /\ new_data = <<>>
    /\ patch_file \in SeqsUpTo(PatchLineSamples, MaxLines)
    /\ output_file \in {NoFile, FileOf(<<0>>)}
    /\ output_file_before = output_file

CreateBinaryPatch ==
    /\ ppc = "start"
    /\ patch_file' = PatchLines(PatchEntries(old_data, new_data, 0))
    /\ ppc' = "created"
    /\ UNCHANGED <<old_data, new_data, output_file, output_file_before>>
    /\ UNCHANGED <<launchVars, buildVars, watchVars, mainVars>>

\* An apply that creates the output file before it reads the patch.
ApplyBinaryPatchCreatesFirst ==
    /\ ppc = "created"
    /\ LET out == ApplyPatch(old_data, patch_file)
       IN  IF out.ok
           THEN /\ ppc' = "applied"
                /\ output_file' = FileOf(out.bytes)
           ELSE /\ ppc' = "failed"
                /\ output_file' = FileOf(<<>>)
    /\ UNCHANGED <<old_data, new_data, patch_file, output_file_before>>
    /\ UNCHANGED <<launchVars, buildVars, watchVars, mainVars>>

\* apply_binary_patch: the loop, then File::create(output_path) and write_all; an
\* error in the loop returns before the file is created.
ApplyBinaryPatch ==
    /\ ppc = "created"
    /\ LET out == ApplyPatch(old_data, patch_file)
       IN  IF out.ok
           THEN /\ ppc' = "applied"
                /\ output_file' = FileOf(out.bytes)
           ELSE /\ ppc' = "failed"
                /\ UNCHANGED output_file
    /\ UNCHANGED <<old_data, new_data, patch_file, output_file_before>>
    /\ UNCHANGED <<launchVars, buildVars, watchVars, mainVars>>

(***************************************************************************)
(* parse_target and the manifest entry build_package pushes for a target.  *)
(***************************************************************************)
\* The name of the project (get_project_name); one fixed name in the model.
ProjectName == "app"

\* target.split('-'): the first part, and whether there are at least two.
FirstPart(target) ==
    LET dash == FindFrom(target, "-", 1)
    IN  IF dash = 0 THEN target ELSE SubSeq(target, 1, dash - 1)

ParseTarget(target) ==
    IF ~Contains(target, "-")
    THEN [platform |-> "unknown", arch |-> "unknown", compatibility |-> <<>>]
    ELSE LET platform ==
                 IF Contains(target, "windows") THEN "windows"
                 ELSE IF Contains(target, "linux") THEN "linux"
                 ELSE IF Contains(target, "darwin") \/ Contains(target, "apple") THEN "macos"
                 ELSE "unknown"
             compatibility ==
                 IF platform = "windows" THEN <<"nt6.1", "pe">>
                 ELSE IF platform = "linux" THEN <<"glibc-2.17", "elf">>
                 ELSE IF platform = "macos" THEN <<"10.7", "mach-o">>
                 ELSE <<>>
         IN  [platform |-> platform, arch |-> FirstPart(target),
              compatibility |-> compatibility]

\* build_for_target's rel_path: bin/<target>/<name><ext>.
RelPath(target) ==
    "bin/" \o target \o "/" \o ProjectName
        \o (IF Contains(target, "windows") THEN ".exe" ELSE "")

\* The TargetInfo build_package pushes once the target is built.
TargetInfoOf(target) ==
    LET parsed == ParseTarget(target)
    IN  [platform      |-> parsed.platform,
         arch          |-> parsed.arch,
         binary_path   |-> RelPath(target),
         compatibility |-> parsed.compatibility]

\* The target identifiers the model builds for.
TargetTriples ==
    {"x86_64-unknown-linux-gnu", "x86_64-unknown-linux-musl", "aarch64-apple-darwin",
     "i686-unknown-linux-gnu", "x86_64-pc-windows-gnu"}

TargetLists == SeqsUpTo(TargetTriples, MaxTargets)

(***************************************************************************)
(* The launcher: BOOTSTRAP_SCRIPT, run by /bin/sh.                         *)
(***************************************************************************)
Running == -1

NoProcess == [running |-> FALSE, path |-> "", argv |-> <<>>]

UpperChars == "ABCDEFGHIJKLMNOPQRSTUVWXYZ"

LowerChars == "abcdefghijklmnopqrstuvwxyz"

LowerChar(c) ==
    IF \E i \in 1..Len(UpperChars) : CharAt(UpperChars, i) = c
    THEN CharAt(LowerChars, CHOOSE i \in 1..Len(UpperChars) : CharAt(UpperChars, i) = c)
    ELSE c

\* tr '[:upper:]' '[:lower:]'
RECURSIVE ToLower(_)
ToLower(s) ==
    IF Len(s) = 0 THEN ""
    ELSE LowerChar(CharAt(s, 1)) \o ToLower(SubSeq(s, 2, Len(s)))

\* The words of a sequence joined by sep: "$*" with sep = " ", jq's output lines
\* with sep = "\n".
RECURSIVE JoinWith(_, _)
JoinWith(words, sep) ==
    IF Len(words) = 0 THEN ""
    ELSE IF Len(words) = 1 THEN words[1]
    ELSE words[1] \o sep \o JoinWith(Tail(words), sep)

\* sed "s/pat//": the first occurrence of pat removed.
RemoveFirst(s, pat) ==
    LET at == FindFrom(s, pat, 1)
    IN  IF at = 0 THEN s
        ELSE SubSeq(s, 1, at - 1) \o SubSeq(s, at + Len(pat), Len(s))

\* Field splitting of an unquoted expansion: the words between blanks.
RECURSIVE SplitWords(_)
SplitWords(s) ==
    IF Len(s) = 0 THEN <<>>
    ELSE IF CharAt(s, 1) = " " THEN SplitWords(SubSeq(s, 2, Len(s)))
    ELSE LET sp == FindFrom(s, " ", 1)
         IN  IF sp = 0 THEN <<s>>
             ELSE <<SubSeq(s, 1, sp - 1)>> \o SplitWords(SubSeq(s, sp + 1, Len(s)))

\* if [ "$KERNEL" = "darwin" ] ... elif ... grep -q "mingw\|cygwin\|msys" ... fi
NormalizePlatform(kernel) ==
    IF kernel = "darwin" THEN "macos"
    ELSE IF kernel = "linux" THEN "linux"
    ELSE IF Contains(kernel, "mingw") \/ Contains(kernel, "cygwin") \/ Contains(kernel, "msys")
         THEN "windows"
    ELSE "unknown"

\* A launcher that forgets the "amd64" and "i386" spellings.
NormalizeArchNoAlias(arch) ==
    IF arch = "x86_64" THEN "x86_64"
    ELSE IF arch = "arm64" \/ arch = "aarch64" THEN "aarch64"
    ELSE IF arch = "i686" THEN "x86"
    ELSE IF arch = "arm" \/ arch = "armv7l" THEN "arm"
    ELSE "unknown"

\* if [ "$ARCH" = "x86_64" ] || [ "$ARCH" = "amd64" ] ... fi
NormalizeArch(arch) ==
    IF arch = "x86_64" \/ arch = "amd64" THEN "x86_64"
    ELSE IF arch = "arm64" \/ arch = "aarch64" THEN "aarch64"
    ELSE IF arch = "i386" \/ arch = "i686" THEN "x86"
    ELSE IF arch = "arm" \/ arch = "armv7l" THEN "arm"
    ELSE "unknown"

\* A select that tests the platform alone.
SelectedByPlatform(t, platform, arch) == t.platform = platform

\* jq: select(.platform == $platform and .arch == $arch)
Selected(t, platform, arch) == t.platform = platform /\ t.arch = arch

\* jq -r '.targets[] | select(...) | .binary_path': one line per selected entry, in
\* the order of the targets.
RECURSIVE JqBinaryPaths(_, _, _)
JqBinaryPaths(targets, platform, arch) ==
    IF Len(targets) = 0 THEN <<>>
    ELSE (IF Selected(targets[1], platform, arch)
          THEN <<targets[1].binary_path>> ELSE <<>>)
         \o JqBinaryPaths(Tail(targets), platform, arch)

CLEANUP_OPT == "--cleanup"

\* What `uname -s` and `uname -m` print on the hosts of the model.
Hosts ==
    {<<"Linux", "x86_64">>, <<"Linux", "amd64">>, <<"Linux", "aarch64">>,
     <<"Linux", "i686">>, <<"Linux", "i386">>, <<"Linux", "armv7l">>,
     <<"Linux", "arm">>, <<"Linux", "riscv64">>, <<"Darwin", "arm64">>,
     <<"Darwin", "x86_64">>, <<"MINGW64_NT-10.0", "x86_64">>,
     <<"CYGWIN_NT-10.0", "i686">>, <<"MSYS_NT-10.0", "x86_64">>,
     <<"FreeBSD", "amd64">>}

\* The argument lists the launcher is run with.
ArgLists ==
    {<<>>, <<"run">>, <<"--check-updates">>, <<"--update">>,
     <<"--replace-with-update", "/opt/app.rpack">>, <<"--cleanup">>,
     <<"--cleanup", "run">>, <<"run", "a b">>, <<"--cleanup", "a b">>,
     <<"--cleanup-now">>}

\* The payload a successful build_package archives for a list of targets.
PayloadOf(targets, with_assets) ==
    [targets |-> [k \in 1..Len(targets) |-> TargetInfoOf(targets[k])],
     files   |-> {RelPath(targets[k]) : k \in 1..Len(targets)},
     assets  |-> with_assets]

LaunchIdle ==
    /\ lpc = "idle"
    /\ payload = PayloadOf(<<>>, FALSE)
    /\ uname_s = ""
    /\ uname_m = ""
    /\ args = <<>>
    /\ KERNEL = ""
    /\ PLATFORM = ""
    /\ ARCH = ""
    /\ BINARY_PATH = ""
    /\ assets_env = FALSE
    /\ temp_dir = FALSE
    /\ launched = NoProcess
    /\ exit_status = Running
    /\ stdout = <<>>

InitLauncher ==
    /\ lpc = "start"
    /\ \E targets \in TargetLists, with_assets \in BOOLEAN :
           payload = PayloadOf(targets, with_assets)
    /\ \E host \in Hosts : uname_s = host[1] /\ uname_m = host[2]
    /\ args \in ArgLists
    /\ KERNEL = ""
    /\ PLATFORM = ""
    /\ ARCH = ""
    /\ BINARY_PATH = ""
    /\ assets_env = FALSE
    /\ temp_dir = FALSE
    /\ launched = NoProcess
    /\ exit_status = Running
    /\ stdout = <<>>

\* TEMP_DIR=$(mktemp -d ...); tail -n+$PAYLOAD_LINE $0 | tar xzf - -C "$TEMP_DIR"
ExtractPayload ==
    /\ lpc = "start"
    /\ temp_dir' = TRUE
    /\ lpc' = "extracted"
    /\ UNCHANGED <<payload, uname_s, uname_m, args, KERNEL, PLATFORM, ARCH, BINARY_PATH,
                   assets_env, launched, exit_status, stdout>>
    /\ UNCHANGED <<patchVars, buildVars, watchVars, mainVars>>

\* KERNEL=$(uname -s | tr '[:upper:]' '[:lower:]'); ARCH=$(uname -m)
DetectHost ==
    /\ lpc = "extracted"
    /\ KERNEL' = ToLower(uname_s)
    /\ ARCH' = uname_m
    /\ lpc' = "host"
    /\ UNCHANGED <<payload, uname_s, uname_m, args, PLATFORM, BINARY_PATH, assets_env,
                   temp_dir, launched, exit_status, stdout>>
    /\ UNCHANGED <<patchVars, buildVars, watchVars, mainVars>>

SetPlatform ==
    /\ lpc = "host"
    /\ PLATFORM' = NormalizePlatform(KERNEL)
    /\ lpc' = "platform"
    /\ UNCHANGED <<payload, uname_s, uname_m, args, KERNEL, ARCH, BINARY_PATH, assets_env,
                   temp_dir, launched, exit_status, stdout>>
    /\ UNCHANGED <<patchVars, buildVars, watchVars, mainVars>>

SetArch ==
    /\ lpc = "platform"
    /\ ARCH' = NormalizeArch(ARCH)
    /\ lpc' = "arch"
    /\ UNCHANGED <<payload, uname_s, uname_m, args, KERNEL, PLATFORM, BINARY_PATH,
                   assets_env, temp_dir, launched, exit_status, stdout>>
    /\ UNCHANGED <<patchVars, buildVars, watchVars, mainVars>>

\* if [ -d "$TEMP_DIR/rustpack/assets" ]; then export RUSTPACK_ASSETS_DIR=...
ExportAssets ==
    /\ lpc = "arch"
    /\ assets_env' = payload.assets
    /\ lpc' = "assets"
    /\ UNCHANGED <<payload, uname_s, uname_m, args, KERNEL, PLATFORM, ARCH, BINARY_PATH,
                   temp_dir, launched, exit_status, stdout>>
    /\ UNCHANGED <<patchVars, buildVars, watchVars, mainVars>>

\* BINARY_PATH=$(jq -r ... "$TEMP_DIR/rustpack/info.json")
ResolveBinary ==
    /\ lpc = "assets"
    /\ BINARY_PATH' = JoinWith(JqBinaryPaths(payload.targets, PLATFORM, ARCH), "\n")
    /\ lpc' = "resolved"
    /\ UNCHANGED <<payload, uname_s, uname_m, args, KERNEL, PLATFORM, ARCH, assets_env,
                   temp_dir, launched, exit_status, stdout>>
    /\ UNCHANGED <<patchVars, buildVars, watchVars, mainVars>>

\* The arguments exec passes on: $ARGS (unquoted) when "$*" holds the cleanup
\* option, "$@" otherwise.
ForwardedArgs(argv) ==
    IF Contains(JoinWith(argv, " "), CLEANUP_OPT)
    THEN SplitWords(RemoveFirst(JoinWith(argv, " "), CLEANUP_OPT))
    ELSE argv

\* if [ -n "$BINARY_PATH" ]: chmod +x, then exec.  exec replaces the shell with the
\* binary; when the file does not exist the non-interactive shell exits with 127.
\* Nothing after exec runs in either case.
LaunchBinary ==
    /\ lpc = "resolved"
    /\ BINARY_PATH # ""
    /\ IF BINARY_PATH \in payload.files
       THEN /\ launched' = [running |-> TRUE, path |-> BINARY_PATH,
                            argv |-> ForwardedArgs(args)]
            /\ UNCHANGED exit_status
       ELSE /\ exit_status' = 127
            /\ UNCHANGED launched
    /\ lpc' = "done"
    /\ UNCHANGED <<payload, uname_s, uname_m, args, KERNEL, PLATFORM, ARCH, BINARY_PATH,
                   assets_env, temp_dir, stdout>>
    /\ UNCHANGED <<patchVars, buildVars, watchVars, mainVars>>

\* The launched binary exits.  exec replaced the shell, so no shell is left to run
\* an EXIT trap, and `trap "rm -rf $TEMP_DIR" EXIT` stands after exec and was never
\* executed: the extraction directory stays as it is.
BinaryExits ==
    /\ lpc = "done"
    /\ launched.running
    /\ launched' = [launched EXCEPT !.running = FALSE]
    /\ \E status \in {0, 1} : exit_status' = status
    /\ lpc' = "exited"
    /\ UNCHANGED <<payload, uname_s, uname_m, args, KERNEL, PLATFORM, ARCH, BINARY_PATH,
                   assets_env, temp_dir, stdout>>
    /\ UNCHANGED <<patchVars, buildVars, watchVars, mainVars>>

\* A variant of the diagnostic that leaves the pair out.
DiagnosticNoPair(platform, arch) == "Error: No compatible binary found"

\* The line the script prints when no binary was resolved.
Diagnostic(platform, arch) ==
    "Error: No compatible binary found for " \o platform \o "-" \o arch

\* else: echo "Error: No compatible binary found for $PLATFORM-$ARCH"; exit 1
NoCompatibleBinary ==
    /\ lpc = "resolved"
    /\ BINARY_PATH = ""
    /\ stdout' = Append(stdout, Diagnostic(PLATFORM, ARCH))
    /\ exit_status' = 1
    /\ lpc' = "done"
    /\ UNCHANGED <<payload, uname_s, uname_m, args, KERNEL, PLATFORM, ARCH, BINARY_PATH,
                   assets_env, temp_dir, launched>>
    /\ UNCHANGED <<patchVars, buildVars, watchVars, mainVars>>

(***************************************************************************)
(* The package assembler: build_package and what it calls.                 *)
(***************************************************************************)
\* The lists of targets build_package is called with.
RequestedTargets == TargetLists \ {<<>>}

\* The asset paths that exist under the project root, and the lists of assets
\* a build declares.
ProjectTree == {"assets", "logo.png"}

AssetLists == {<<>>, <<"assets">>, <<"assets", "missing.txt">>, <<"missing.txt", "logo.png">>}

\* No info.json.
NoManifest == [written |-> FALSE, name |-> "", targets |-> <<>>, features |-> {}, metadata |-> {}]

\* The temporary directory build_package assembles the payload in.
TempDir == "/tmp/.tmpA"

\* BOOTSTRAP_SCRIPT as lines: its first four lines and its last two; none of the
\* lines left out holds the marker text.
Marker == "__PAYLOAD_BEGINS__"

BootstrapLines ==
    <<"#!/bin/sh",
      "PAYLOAD_LINE=$(awk '/^__PAYLOAD_BEGINS__/ { print NR + 1; exit 0; }' $0)",
      "TEMP_DIR=$(mktemp -d 2>/dev/null || mktemp -d -t rustpack)",
      "tail -n+$PAYLOAD_LINE $0 | tar xzf - -C \"$TEMP_DIR\"",
      "exit 0",
      Marker>>

\* The content of a file of the payload, and of no file.
NoData == [path |-> "", manifest |-> NoManifest]

FileData(path) ==
    [path |-> path, manifest |-> IF path = "info.json" THEN info_json ELSE NoManifest]

\* The directories a path lies in, and the directories among the paths of a tree:
\* those that hold something, the assets directory and a copied asset directory.
Ancestors(path) ==
    {SubSeq(path, 1, i - 1) : i \in {j \in 1..Len(path) : CharAt(path, j) = "/"}}

DirsOf(dir) ==
    UNION {Ancestors(p) : p \in dir} \cup (dir \cap {"assets", "assets/assets"})

\* The payload tree under TempDir, paths relative to TempDir.
PayloadTree(dir) ==
    {[path |-> "rustpack", is_dir |-> TRUE, data |-> NoData]}
        \cup {[path   |-> "rustpack/" \o p,
               is_dir |-> p \in DirsOf(dir),
               data   |-> IF p \in DirsOf(dir) THEN NoData ELSE FileData(p)] :
                  p \in dir \cup DirsOf(dir)}

\* WalkDir::new(temp_dir): the root, then everything under it, by full path.
WalkDir(dir) ==
    {[path |-> TempDir, is_dir |-> TRUE, data |-> NoData]}
        \cup {[e EXCEPT !.path = TempDir \o "/" \o e.path] : e \in PayloadTree(dir)}

\* path.strip_prefix(temp_dir)
StripPrefix(path, prefix) == SubSeq(path, Len(prefix) + 2, Len(path))

\* The tar entries: append_dir(name, path) for a directory, append_path_with_name
\* for a file.
TarEntries(dir) ==
    {[name     |-> StripPrefix(e.path, TempDir),
      typeflag |-> IF e.is_dir THEN "5" ELSE "0",
      data     |-> e.data] : e \in {w \in WalkDir(dir) : w.path # TempDir}}

\* The zip entries: add_directory stores the name with a trailing slash,
\* start_file stores the name and the bytes read from the file.
ZipEntries(dir) ==
    {[name |-> IF e.is_dir THEN StripPrefix(e.path, TempDir) \o "/"
                           ELSE StripPrefix(e.path, TempDir),
      data |-> e.data] : e \in {w \in WalkDir(dir) : w.path # TempDir}}

\* The content of an artifact: the text lines it starts with, then the entries of
\* its compressed archive.
NoContent == [lines |-> <<>>, entries |-> {}]

SfxContent(dir) == [lines |-> BootstrapLines, entries |-> TarEntries(dir)]

ZipContent(dir) == [lines |-> <<>>, entries |-> ZipEntries(dir)]

\* An awk pattern without the anchor.
MarkerMatchesAnywhere(line) == Contains(line, Marker)

\* awk '/^__PAYLOAD_BEGINS__/'
MarkerMatches(line) ==
    Len(line) >= Len(Marker) /\ SubSeq(line, 1, Len(Marker)) = Marker

\* PAYLOAD_LINE: one more than the number of the first line that matches; 0 stands
\* for no output of awk.
PayloadLine(lines) ==
    LET hits == {k \in 1..Len(lines) : MarkerMatches(lines[k])}
    IN  IF hits = {} THEN 0
        ELSE 1 + CHOOSE k \in hits : \A h \in hits : k <= h

\* tail -n+$PAYLOAD_LINE $0 | tar xzf - -C "$TEMP_DIR": tar is given the bytes from
\* that line on, and fails unless they are the compressed archive and nothing else.
ExtractSfx(content) ==
    IF PayloadLine(content.lines) = Len(content.lines) + 1
    THEN [ok   |-> TRUE,
          tree |-> {[path |-> e.name, is_dir |-> e.typeflag = "5", data |-> e.data] :
                       e \in content.entries}]
    ELSE [ok |-> FALSE, tree |-> {}]

\* Extraction of the plain zip: a name with a trailing slash is a directory.
Unzip(content) ==
    [ok   |-> TRUE,
     tree |-> {IF CharAt(e.name, Len(e.name)) = "/"
               THEN [path |-> SubSeq(e.name, 1, Len(e.name) - 1), is_dir |-> TRUE,
                     data |-> e.data]
               ELSE [path |-> e.name, is_dir |-> FALSE, data |-> e.data] :
                  e \in content.entries}]

\* The file at output_name: absent, or written by an earlier run or by this one.
NoArtifact ==
    [exists |-> FALSE, run |-> "none", complete |-> FALSE, executable |-> FALSE,
     content |-> NoContent]

EarlierArtifact ==
    [exists |-> TRUE, run |-> "earlier", complete |-> TRUE, executable |-> TRUE,
     content |-> [lines |-> BootstrapLines, entries |-> {}]]

\* if !src_path.exists(): a copy_assets that never looks.
AssetMissingNever(asset) == FALSE

\* if !src_path.exists()
AssetMissing(asset) == asset \notin ProjectTree

\* copy_assets' loop from asset k on: the payload tree it leaves, and whether it
\* returned Ok.
RECURSIVE CopyAssetsFrom(_, _, _)
CopyAssetsFrom(dir, assets, k) ==
    IF k > Len(assets) THEN [ok |-> TRUE, tree |-> dir]
    ELSE IF AssetMissing(assets[k]) THEN [ok |-> FALSE, tree |-> dir]
    ELSE CopyAssetsFrom(dir \cup {"assets/" \o assets[k]}, assets, k + 1)

CopyAssetsResult(dir, assets) ==
    IF Len(assets) = 0 THEN [ok |-> TRUE, tree |-> dir]
    ELSE CopyAssetsFrom(dir \cup {"assets"}, assets, 1)

\* The PackageInfo build_package serializes into info.json.
PackageInfoOf(infos) ==
    [written  |-> TRUE,
     name     |-> ProjectName,
     targets  |-> infos,
     features |-> {"cross_platform", "self_extracting", "binary_packaging",
                   "compression", "auto_detection"},
     metadata |-> {<<"created_with", "rustpack">>}]

BuildIdle ==
    /\ bpc = "idle"
    /\ b_targets = <<>>
    /\ b_assets = <<>>
    /\ create_zip = FALSE
    /\ cargo_runs = <<>>
    /\ target_infos = <<>>
    /\ tree = {}
    /\ info_json = NoManifest
    /\ output_before = NoArtifact
    /\ artifact = NoArtifact
    /\ build_result = "none"

InitBuilder ==
    /\ bpc = "start"
    /\ b_targets \in RequestedTargets
    /\ b_assets \in AssetLists
    /\ create_zip \in BOOLEAN
    /\ cargo_runs = <<>>
    /\ target_infos = <<>>
    /\ tree = {}
    /\ info_json = NoManifest
    /\ output_before \in {NoArtifact, EarlierArtifact}
    /\ artifact = output_before
    /\ build_result = "none"

\* A build_package that notes the error and goes on with the next step.
FailContinues(kind) ==
    /\ bpc' = bpc
    /\ build_result' = kind

\* build_package returns Err: nothing after the failing call runs.
Fail(kind) ==
    /\ bpc' = "done"
    /\ build_result' = kind

\* tempfile::tempdir, create_dir_all, get_project_name(project_path)?
ReadProjectName ==
    /\ bpc = "start"
    /\ bpc' = "targets"
    /\ UNCHANGED <<b_targets, b_assets, create_zip, cargo_runs, target_infos, tree,
                   info_json, output_before, artifact, build_result>>
    /\ UNCHANGED <<patchVars, launchVars, watchVars, mainVars>>

ReadProjectNameFails ==
    /\ bpc = "start"
    /\ Fail("ConfigError")
    /\ UNCHANGED <<b_targets, b_assets, create_zip, cargo_runs, target_infos, tree,
                   info_json, output_before, artifact>>
    /\ UNCHANGED <<patchVars, launchVars, watchVars, mainVars>>

\* cargo build --target <target> can succeed only for a target the toolchain has.
CargoKnows(target) == target \in TargetTriples

\* A pass that pushes the entry without copying the binary.
BuildTargetNoCopy ==
    /\ bpc = "targets"
    /\ Len(target_infos) < Len(b_targets)
    /\ CargoKnows(b_targets[Len(target_infos) + 1])
    /\ LET target == b_targets[Len(target_infos) + 1]
       IN  /\ cargo_runs' = Append(cargo_runs, target)
           /\ target_infos' = Append(target_infos, TargetInfoOf(target))
    /\ UNCHANGED <<bpc, b_targets, b_assets, create_zip, tree, info_json, output_before,
                   artifact, build_result>>
    /\ UNCHANGED <<patchVars, launchVars, watchVars, mainVars>>

\* One pass of `for target in targets` with cargo succeeding: parse_target,
\* build_for_target (cargo build, fs::copy into bin/<target>/), target_infos.push.
BuildTarget ==
    /\ bpc = "targets"
    /\ Len(target_infos) < Len(b_targets)
    /\ CargoKnows(b_targets[Len(target_infos) + 1])
    /\ LET target == b_targets[Len(target_infos) + 1]
       IN  /\ cargo_runs' = Append(cargo_runs, target)
           /\ tree' = tree \cup {RelPath(target)}
           /\ target_infos' = Append(target_infos, TargetInfoOf(target))
    /\ UNCHANGED <<bpc, b_targets, b_assets, create_zip, info_json, output_before,
                   artifact, build_result>>
    /\ UNCHANGED <<patchVars, launchVars, watchVars, mainVars>>

\* if !status.success() { return Err("Failed to build for target: ...") }
BuildTargetFails ==
    /\ bpc = "targets"
    /\ Len(target_infos) < Len(b_targets)
    /\ cargo_runs' = Append(cargo_runs, b_targets[Len(target_infos) + 1])
    /\ Fail("BuildFailure")
    /\ UNCHANGED <<b_targets, b_assets, create_zip, target_infos, tree, info_json,
                   output_before, artifact>>
    /\ UNCHANGED <<patchVars, launchVars, watchVars, mainVars>>

\* copy_assets(project_path, &rustpack_dir, &build_config.assets, verbose)?
CopyAssets ==
    /\ bpc = "targets"
    /\ Len(target_infos) = Len(b_targets)
    /\ LET copied == CopyAssetsResult(tree, b_assets)
       IN  /\ tree' = copied.tree
           /\ IF copied.ok
              THEN bpc' = "license" /\ UNCHANGED build_result
              ELSE Fail("AssetNotFound")
    /\ UNCHANGED <<b_targets, b_assets, create_zip, cargo_runs, target_infos, info_json,
                   output_before, artifact>>
    /\ UNCHANGED <<patchVars, launchVars, watchVars, mainVars>>

\* detect_and_embed_license: LICENSE when the project has one, LICENSE.note otherwise;
\* its error is only logged, and then neither file is there.
EmbedLicense ==
    /\ bpc = "license"
    /\ \/ \E name \in {"LICENSE", "LICENSE.note"} : tree' = tree \cup {name}
       \/ UNCHANGED tree
    /\ bpc' = "manifest"
    /\ UNCHANGED <<b_targets, b_assets, create_zip, cargo_runs, target_infos, info_json,
                   output_before, artifact, build_result>>
    /\ UNCHANGED <<patchVars, launchVars, watchVars, mainVars>>

\* fs::write(rustpack_dir.join("info.json"), info_json)?
WriteManifest ==
    /\ bpc = "manifest"
    /\ info_json' = PackageInfoOf(target_infos)
    /\ tree' = tree \cup {"info.json"}
    /\ bpc' = "archive"
    /\ UNCHANGED <<b_targets, b_assets, create_zip, cargo_runs, target_infos,
                   output_before, artifact, build_result>>
    /\ UNCHANGED <<patchVars, launchVars, watchVars, mainVars>>

\* File::create(output_name)?: the file exists from here on, empty.  In the
\* self-extracting encoding the tar.gz stream is written to a temporary file first.
CreateOutputFile ==
    /\ bpc = "archive"
    /\ artifact' = [exists |-> TRUE, run |-> "this", complete |-> FALSE,
                    executable |-> artifact.executable, content |-> NoContent]
    /\ bpc' = "writing"
    /\ UNCHANGED <<b_targets, b_assets, create_zip, cargo_runs, target_infos, tree,
                   info_json, output_before, build_result>>
    /\ UNCHANGED <<patchVars, launchVars, watchVars, mainVars>>

\* The temporary archive, or File::create itself, fails: the output is not touched.
CreateOutputFileFails ==
    /\ bpc = "archive"
    /\ Fail("ArchiveIOError")
    /\ UNCHANGED <<b_targets, b_assets, create_zip, cargo_runs, target_infos, tree,
                   info_json, output_before, artifact>>
    /\ UNCHANGED <<patchVars, launchVars, watchVars, mainVars>>

\* The zip entries and zip.finish(), or write_all(BOOTSTRAP_SCRIPT) and io::copy.
\* create_zip_package returns Ok here, and build_package with it.
WriteArchive ==
    /\ bpc = "writing"
    /\ artifact' = [artifact EXCEPT !.complete = TRUE,
                                    !.content = IF create_zip THEN ZipContent(tree)
                                                              ELSE SfxContent(tree)]
    /\ IF create_zip
       THEN bpc' = "done" /\ build_result' = "Ok"
       ELSE bpc' = "permissions" /\ UNCHANGED build_result
    /\ UNCHANGED <<b_targets, b_assets, create_zip, cargo_runs, target_infos, tree,
                   info_json, output_before>>
    /\ UNCHANGED <<patchVars, launchVars, watchVars, mainVars>>

\* A write into the open output file fails: `?` returns, the file stays as it is.
WriteArchiveFails ==
    /\ bpc = "writing"
    /\ Fail("ArchiveIOError")
    /\ UNCHANGED <<b_targets, b_assets, create_zip, cargo_runs, target_infos, tree,
                   info_json, output_before, artifact>>
    /\ UNCHANGED <<patchVars, launchVars, watchVars, mainVars>>

\* #[cfg(unix)] perms.set_mode(0o755)
SetExecutable ==
    /\ bpc = "permissions"
    /\ artifact' = [artifact EXCEPT !.executable = TRUE]
    /\ bpc' = "sign"
    /\ UNCHANGED <<b_targets, b_assets, create_zip, cargo_runs, target_infos, tree,
                   info_json, output_before, build_result>>
    /\ UNCHANGED <<patchVars, launchVars, watchVars, mainVars>>

\* sign_package(Path::new(output_name), &build_config.sign)?
SignPackage ==
    /\ bpc = "sign"
    /\ bpc' = "done"
    /\ build_result' = "Ok"
    /\ UNCHANGED <<b_targets, b_assets, create_zip, cargo_runs, target_infos, tree,
                   info_json, output_before, artifact>>
    /\ UNCHANGED <<patchVars, launchVars, watchVars, mainVars>>

\* calculate_checksum cannot read the artifact back.
SignPackageFails ==
    /\ bpc = "sign"
    /\ Fail("SignatureError")
    /\ UNCHANGED <<b_targets, b_assets, create_zip, cargo_runs, target_infos, tree,
                   info_json, output_before, artifact>>
    /\ UNCHANGED <<patchVars, launchVars, watchVars, mainVars>>

(***************************************************************************)
(* Watch mode: watch_and_build.  The main thread runs the loop; the        *)
(* observer thread of the watcher pushes notifications into the channel.   *)
(* Time is counted in whole seconds, and a duration is counted up to Cap,  *)
(* which stands for every duration longer than the quiet window.           *)
(***************************************************************************)
\* Duration::from_secs(5)
QuietWindow == 5

Cap == QuietWindow + 1

OneSecondMore(d) == IF d < Cap THEN d + 1 ELSE Cap

WatchIdle ==
    /\ wpc = "idle"
    /\ rx_queued = 0
    /\ last_build_elapsed = 0
    /\ in_flight = 0
    /\ last_outcome = "none"
    /\ since_build_start = 0
    /\ since_build_end = 0
    /\ last_read = "none"
    /\ owed = FALSE

\* The watcher is registered on the project directory.
InitWatcher ==
    /\ wpc = "start"
    /\ rx_queued = 0
    /\ last_build_elapsed = 0
    /\ in_flight = 0
    /\ last_outcome = "none"
    /\ since_build_start = 0
    /\ since_build_end = 0
    /\ last_read = "none"
    /\ owed = FALSE

\* build_package(...)? before the loop: the call is made.
InitialBuild ==
    /\ wpc = "start"
    /\ wpc' = "initial"
    /\ in_flight' = in_flight + 1
    /\ since_build_start' = 0
    /\ UNCHANGED <<rx_queued, last_build_elapsed, last_outcome, since_build_end,
                   last_read, owed>>
    /\ UNCHANGED <<patchVars, launchVars, buildVars, mainVars>>

\* The initial build returns: on Ok, let mut last_build = Instant::now() and the
\* loop is entered; on Err, watch_and_build returns the error.
InitialBuildReturns ==
    /\ wpc = "initial"
    /\ in_flight' = in_flight - 1
    /\ since_build_end' = 0
    /\ \E ok \in BOOLEAN :
           IF ok THEN wpc' = "recv" /\ last_build_elapsed' = 0
                 ELSE wpc' = "failed" /\ UNCHANGED last_build_elapsed
    /\ UNCHANGED <<rx_queued, last_outcome, since_build_start, last_read, owed>>
    /\ UNCHANGED <<patchVars, launchVars, buildVars, mainVars>>

\* The observer thread sends a notification; it may do so whatever the main
\* thread is doing.
Notify ==
    /\ wpc \in {"initial", "recv", "building"}
    /\ rx_queued < MaxQueue
    /\ rx_queued' = rx_queued + 1
    /\ owed' = (owed \/ wpc = "building")
    /\ UNCHANGED <<wpc, last_build_elapsed, in_flight, last_outcome, since_build_start,
                   since_build_end, last_read>>
    /\ UNCHANGED <<patchVars, launchVars, buildVars, mainVars>>

\* A loop that reads the channel while a rebuild runs (the rebuild on a thread of
\* its own).
ReadNotificationAnytime ==
    /\ wpc \in {"recv", "building"}
    /\ rx_queued > 0
    /\ rx_queued' = rx_queued - 1
    /\ wpc' = "building"
    /\ in_flight' = in_flight + 1
    /\ since_build_start' = 0
    /\ last_read' = "rebuild"
    /\ owed' = FALSE
    /\ UNCHANGED <<last_build_elapsed, last_outcome, since_build_end>>
    /\ UNCHANGED <<patchVars, launchVars, buildVars, mainVars>>

\* rx.recv() returns Ok(_): if last_build.elapsed() > Duration::from_secs(5) the
\* rebuild is called, otherwise the loop goes back to rx.recv().
ReadNotification ==
    /\ wpc = "recv"
    /\ rx_queued > 0
    /\ rx_queued' = rx_queued - 1
    /\ IF last_build_elapsed > QuietWindow
       THEN /\ wpc' = "building"
            /\ in_flight' = in_flight + 1
            /\ since_build_start' = 0
            /\ last_read' = "rebuild"
            /\ owed' = FALSE
       ELSE /\ last_read' = "dropped"
            /\ UNCHANGED <<wpc, in_flight, since_build_start, owed>>
    /\ UNCHANGED <<last_build_elapsed, last_outcome, since_build_end>>
    /\ UNCHANGED <<patchVars, launchVars, buildVars, mainVars>>

\* A loop that hands the rebuild's error on, as the call before the loop does.
RebuildReturnsPropagates ==
    /\ wpc = "building"
    /\ last_build_elapsed' = 0
    /\ in_flight' = in_flight - 1
    /\ since_build_end' = 0
    /\ \E ok \in BOOLEAN :
           IF ok THEN wpc' = "recv" /\ last_outcome' = "ok"
                 ELSE wpc' = "failed" /\ last_outcome' = "failed"
    /\ UNCHANGED <<rx_queued, since_build_start, last_read, owed>>
    /\ UNCHANGED <<patchVars, launchVars, buildVars, mainVars>>

\* A loop that does not take last_build again after a rebuild.
RebuildReturnsKeepsStamp ==
    /\ wpc = "building"
    /\ \E ok \in BOOLEAN : last_outcome' = IF ok THEN "ok" ELSE "failed"
    /\ in_flight' = in_flight - 1
    /\ since_build_end' = 0
    /\ wpc' = "recv"
    /\ UNCHANGED <<rx_queued, last_build_elapsed, since_build_start, last_read, owed>>
    /\ UNCHANGED <<patchVars, launchVars, buildVars, mainVars>>

\* The rebuild returns, with Ok or Err; either is printed, then
\* last_build = Instant::now() and the loop goes back to rx.recv().
RebuildReturns ==
    /\ wpc = "building"
    /\ \E ok \in BOOLEAN : last_outcome' = IF ok THEN "ok" ELSE "failed"
    /\ last_build_elapsed' = 0
    /\ in_flight' = in_flight - 1
    /\ since_build_end' = 0
    /\ wpc' = "recv"
    /\ UNCHANGED <<rx_queued, since_build_start, last_read, owed>>
    /\ UNCHANGED <<patchVars, launchVars, buildVars, mainVars>>

\* A second passes, whatever the main thread is doing.
SecondPasses ==
    /\ wpc \in {"initial", "recv", "building"}
    /\ last_build_elapsed' = OneSecondMore(last_build_elapsed)
    /\ since_build_start' = OneSecondMore(since_build_start)
    /\ since_build_end' = OneSecondMore(since_build_end)
    /\ UNCHANGED <<wpc, rx_queued, in_flight, last_outcome, last_read, owed>>
    /\ UNCHANGED <<patchVars, launchVars, buildVars, mainVars>>

(***************************************************************************)
(* main, for a build that is neither a patch operation nor watch mode: the *)
(* options and RustPack.toml decide what build_package is called with.     *)
(***************************************************************************)
\* An option that was not given, or a key RustPack.toml does not have.
None == [some |-> FALSE, val |-> <<>>]

Some(val) == [some |-> TRUE, val |-> val]

NoUrl == [some |-> FALSE, val |-> ""]

MainIdle ==
    /\ mpc = "idle"
    /\ opt_targets = None
    /\ opt_assets = None
    /\ opt_update_url = NoUrl
    /\ config_targets = None
    /\ config_assets = None
    /\ host_target = ""

InitMainArgs ==
    /\ mpc = "start"
    /\ opt_targets \in {None, Some(<<"x86_64-unknown-linux-gnu">>),
                         Some(<<"aarch64-apple-darwin", "x86_64-unknown-linux-gnu">>)}
    /\ opt_assets \in {None, Some(<<"logo.png">>)}
    /\ opt_update_url \in {NoUrl, [some |-> TRUE, val |-> "https://example.com/updates"]}
    /\ config_targets \in {None, Some(<<"x86_64-unknown-linux-musl">>)}
    /\ config_assets \in {None, Some(<<"assets">>)}
    /\ host_target \in {"x86_64-unknown-linux-gnu", "aarch64-apple-darwin"}

\* let targets = matches.get_one("targets") ... .or_else(|| config.assets.clone())
\*     .unwrap_or_else(|| vec![get_current_target()])
SelectTargets ==
    IF opt_targets.some THEN opt_targets.val
    ELSE IF config_assets.some THEN config_assets.val
    ELSE <<host_target>>

\* build_config.assets: the option, else RustPack.toml, else RUSTPACK_ASSETS (unset).
SelectAssets ==
    IF opt_assets.some THEN opt_assets.val
    ELSE IF config_assets.some THEN config_assets.val
    ELSE <<>>

\* main up to its call of build_package(project_path, &output_name, &targets,
\* &build_config, verbose, create_zip); --zip and the file at the output path are
\* inputs.
MainBuild ==
    /\ mpc = "start"
    /\ bpc = "idle"
    /\ mpc' = "called"
    /\ bpc' = "start"
    /\ b_targets' = SelectTargets
    /\ b_assets' = SelectAssets
    /\ create_zip' \in BOOLEAN
    /\ output_before' \in {NoArtifact, EarlierArtifact}
    /\ artifact' = output_before'
    /\ UNCHANGED <<cargo_runs, target_infos, tree, info_json, build_result>>
    /\ UNCHANGED <<opt_targets, opt_assets, opt_update_url, config_targets,
                   config_assets, host_target>>
    /\ UNCHANGED <<patchVars, launchVars, watchVars>>

(***************************************************************************)
(* Specifications.                                                         *)
(***************************************************************************)
InitPatch == InitPatchTool /\ LaunchIdle /\ BuildIdle /\ WatchIdle /\ MainIdle

NextPatch == CreateBinaryPatch \/ ApplyBinaryPatch

SpecPatch == InitPatch /\ [][NextPatch]_vars

InitApply == InitApplyTool /\ LaunchIdle /\ BuildIdle /\ WatchIdle /\ MainIdle

NextApply == ApplyBinaryPatch

SpecApply == InitApply /\ [][NextApply]_vars

InitLaunch == InitLauncher /\ PatchIdle /\ BuildIdle /\ WatchIdle /\ MainIdle

NextLaunch ==
    \/ ExtractPayload
    \/ DetectHost
    \/ SetPlatform
    \/ SetArch
    \/ ExportAssets
    \/ ResolveBinary
    \/ LaunchBinary
    \/ BinaryExits
    \/ NoCompatibleBinary

SpecLaunch == InitLaunch /\ [][NextLaunch]_vars

InitBuild == InitBuilder /\ PatchIdle /\ LaunchIdle /\ WatchIdle /\ MainIdle

NextBuild ==
    \/ ReadProjectName
    \/ ReadProjectNameFails
    \/ BuildTarget
    \/ BuildTargetFails
    \/ CopyAssets
    \/ EmbedLicense
    \/ WriteManifest
    \/ CreateOutputFile
    \/ CreateOutputFileFails
    \/ WriteArchive
    \/ WriteArchiveFails
    \/ SetExecutable
    \/ SignPackage
    \/ SignPackageFails

SpecBuild == InitBuild /\ [][NextBuild]_vars

InitWatch == InitWatcher /\ PatchIdle /\ LaunchIdle /\ BuildIdle /\ MainIdle

NextWatch ==
    \/ InitialBuild
    \/ InitialBuildReturns
    \/ Notify
    \/ ReadNotification
    \/ RebuildReturns
    \/ SecondPasses

SpecWatch == InitWatch /\ [][NextWatch]_vars

\* The main thread keeps running, a build returns, and time passes; the observer
\* thread sends a notification only when a file changes, which need not happen.
SpecWatchFair ==
    /\ InitWatch
    /\ [][NextWatch]_vars
    /\ WF_vars(InitialBuild)
    /\ WF_vars(InitialBuildReturns)
    /\ WF_vars(ReadNotification)
    /\ WF_vars(RebuildReturns)
    /\ WF_vars(SecondPasses)

InitMain == InitMainArgs /\ PatchIdle /\ LaunchIdle /\ BuildIdle /\ WatchIdle

NextMain == MainBuild \/ NextBuild

SpecMain == InitMain /\ [][NextMain]_vars

\* Any one of the tools, run once.
Init == InitPatch \/ InitApply \/ InitLaunch \/ InitBuild \/ InitWatch \/ InitMain

Next == NextPatch \/ NextLaunch \/ NextBuild \/ NextWatch \/ MainBuild

Spec == Init /\ [][Next]_vars

(***************************************************************************)
(* Properties.                                                             *)
(***************************************************************************)

\* C1: applying to A the patch create_binary_patch produces for (A, B) yields
\* exactly B, for all byte sequences A and B.
C1_PatchRoundTrip ==
    ppc = "applied" => output_file = FileOf(new_data)

\* C2: create_binary_patch with source A and target A emits zero patch entries:
\* the patch file is empty.
C2_DiffOfEqualIsEmpty ==
    (ppc \in {"created", "applied", "failed"} /\ old_data = new_data)
        => patch_file = <<>>

C2_Witness ==
    ppc = "created" /\ old_data = new_data /\ Len(new_data) = MaxLen

\* The host pair the launcher resolves for, and the manifest entries that match it.
DistinctPairs(targets) ==
    \A i, j \in 1..Len(targets) :
        i # j => <<targets[i].platform, targets[i].arch>>
                     # <<targets[j].platform, targets[j].arch>>

Matching(targets, p, a) ==
    {i \in 1..Len(targets) : targets[i].platform = p /\ targets[i].arch = a}

PairsOf(targets) == [i \in 1..Len(targets) |-> <<targets[i].platform, targets[i].arch>>]

\* C3: on a manifest with pairwise distinct (platform, arch) pairs the launcher
\* resolves to the binary path of the entry matching the host pair and launches it,
\* and to the empty result (no compatible binary, exit 1) when no entry matches;
\* targets [(linux,x86_64), (macos,aarch64)] on host "Linux"/"x86_64" resolve to the
\* first entry.
C3_ResolutionWellFormed ==
    (lpc = "done" /\ DistinctPairs(payload.targets)) =>
        /\ \A i \in Matching(payload.targets, PLATFORM, ARCH) :
              /\ BINARY_PATH = payload.targets[i].binary_path
              /\ launched.running
              /\ launched.path = payload.targets[i].binary_path
        /\ Matching(payload.targets, PLATFORM, ARCH) = {} =>
              /\ BINARY_PATH = ""
              /\ ~launched.running
              /\ exit_status = 1
        /\ ( /\ uname_s = "Linux"
             /\ uname_m = "x86_64"
             /\ PairsOf(payload.targets) = <<<<"linux", "x86_64">>, <<"macos", "aarch64">>>> )
           => launched.running /\ launched.path = payload.targets[1].binary_path

C3_Witness ==
    /\ lpc = "done"
    /\ uname_s = "Linux"
    /\ uname_m = "x86_64"
    /\ PairsOf(payload.targets) = <<<<"linux", "x86_64">>, <<"macos", "aarch64">>>>
    /\ launched.running
    /\ launched.path = "bin/x86_64-unknown-linux-gnu/app"

\* C4: when two or more manifest entries have the host's (platform, arch) pair, the
\* launcher resolves to the binary path of the first of them in stored order and
\* launches that binary.
C4_FirstMatchTieBreak ==
    (lpc = "done" /\ Cardinality(Matching(payload.targets, PLATFORM, ARCH)) >= 2) =>
        LET first == CHOOSE i \in Matching(payload.targets, PLATFORM, ARCH) :
                         \A j \in Matching(payload.targets, PLATFORM, ARCH) : i <= j
        IN  /\ BINARY_PATH = payload.targets[first].binary_path
            /\ launched.running
            /\ launched.path = payload.targets[first].binary_path

\* The normalization the specification tabulates.
Platforms == {"linux", "macos", "windows", "unknown"}

Archs == {"x86_64", "aarch64", "x86", "arm", "unknown"}

TabulatedPlatform(kernel) ==
    CASE kernel = "darwin" -> "macos"
      [] kernel = "linux" -> "linux"
      [] /\ kernel \notin {"darwin", "linux"}
         /\ \E pat \in {"mingw", "cygwin", "msys"} : Contains(kernel, pat) -> "windows"
      [] OTHER -> "unknown"

TabulatedArch(arch) ==
    CASE arch \in {"x86_64", "amd64"} -> "x86_64"
      [] arch \in {"arm64", "aarch64"} -> "aarch64"
      [] arch \in {"i386", "i686"} -> "x86"
      [] arch \in {"arm", "armv7l"} -> "arm"
      [] OTHER -> "unknown"

\* C5: the launcher's host normalization is the tabulated total function of the
\* reported kernel string (case-folded by tr) and arch string, and its result is
\* always in {linux,macos,windows,unknown} x {x86_64,aarch64,x86,arm,unknown}.
C5_HostNormalization ==
    lpc \in {"arch", "assets", "resolved", "done"} =>
        /\ PLATFORM = TabulatedPlatform(ToLower(uname_s))
        /\ ARCH = TabulatedArch(uname_m)
        /\ PLATFORM \in Platforms
        /\ ARCH \in Archs

C5_Witness ==
    /\ lpc = "arch"
    /\ uname_s = "CYGWIN_NT-10.0"
    /\ uname_m = "i686"
    /\ PLATFORM = "windows"
    /\ ARCH = "x86"

\* C6: every manifest build_package writes has at least one target entry and no two
\* entries with the same (platform, arch) pair.
C6_ManifestInvariant ==
    info_json.written =>
        /\ Len(info_json.targets) >= 1
        /\ DistinctPairs(info_json.targets)

\* C7: every target entry of an assembled manifest has its platform in
\* {linux, macos, windows, unknown} and its arch in {x86_64, aarch64, x86, arm, unknown}.
C7_TargetEntryDomains ==
    info_json.written =>
        \A i \in 1..Len(info_json.targets) :
            /\ info_json.targets[i].platform \in Platforms
            /\ info_json.targets[i].arch \in Archs

\* C8: when a declared asset path does not exist under the project root,
\* build_package fails, with the asset-not-found error whenever the steps before
\* copy_assets (project metadata, the target builds) succeeded, and the file at the
\* output path is what it was before the run: neither created nor modified, in both
\* archive encodings.
C8_MissingAssetNoArtifact ==
    (bpc = "done" /\ \E k \in 1..Len(b_assets) : b_assets[k] \notin ProjectTree) =>
        /\ build_result # "Ok"
        /\ build_result \notin {"ConfigError", "BuildFailure"} => build_result = "AssetNotFound"
        /\ artifact = output_before
        /\ ~info_json.written

C8_Witness ==
    /\ bpc = "done"
    /\ build_result = "AssetNotFound"
    /\ create_zip
    /\ b_assets = <<"assets", "missing.txt">>
    /\ "assets/assets" \in tree
    /\ output_before = EarlierArtifact
    /\ artifact = EarlierArtifact

\* C9: whenever build_package returns an error, no artifact file from that run
\* exists at the output path.
C9_FailedBuildLeavesNoArtifact ==
    (bpc = "done" /\ build_result # "Ok") => ~(artifact.exists /\ artifact.run = "this")

\* The auxiliary subcommands of the launcher.
Subcommands == {"--check-updates", "--update", "--replace-with-update"}

\* C10: when the launcher's first argument is --check-updates, --update or
\* --replace-with-update, the subcommand runs and no bundled binary is launched.

C10_SubcommandsExcludeLaunch ==
    (lpc = "done" /\ Len(args) > 0 /\ args[1] \in Subcommands) => ~launched.running

\* C11: when the launcher is run with the cleanup flag and a binary is resolved and
\* launched, the temporary extraction directory no longer exists once the launched
\* process has exited.
C11_CleanupRemovesTempDir ==
    (lpc = "exited" /\ \E k \in 1..Len(args) : args[k] = CLEANUP_OPT) => ~temp_dir

\* C12: the launched binary receives the launcher's arguments verbatim when the
\* cleanup flag is not among them, and otherwise the arguments with exactly the
\* cleanup flag removed, every other argument unchanged and in order.
C12_ArgumentsForwarded ==
    (lpc \in {"done", "exited"} /\ launched.path # "") =>
        launched.argv = SelectSeq(args, LAMBDA a : a # CLEANUP_OPT)

\* C13: when no manifest entry matches the host pair the launcher prints a
\* diagnostic that names the unresolved platform-arch pair, exits with a non-zero
\* status and launches no binary.
C13_ResolverMiss ==
    (lpc = "done" /\ Matching(payload.targets, PLATFORM, ARCH) = {}) =>
        /\ \E k \in 1..Len(stdout) :
              /\ Contains(stdout[k], "No compatible binary")
              /\ Contains(stdout[k], PLATFORM \o "-" \o ARCH)
        /\ exit_status # Running
        /\ exit_status # 0
        /\ launched = NoProcess

C13_Witness ==
    /\ lpc = "done"
    /\ payload.targets # <<>>
    /\ Matching(payload.targets, PLATFORM, ARCH) = {}
    /\ stdout = <<"Error: No compatible binary found for unknown-x86_64">>
    /\ exit_status = 1

\* C14: in watch mode the quiet window is measured from the start of the previous
\* rebuild: a notification read by the main loop triggers a rebuild if and only if
\* more than 5 seconds have elapsed since the previous rebuild started.
C14_QuietWindowFromStart ==
    [][(wpc = "recv" /\ rx_queued' < rx_queued /\ last_outcome # "none") =>
           (wpc' = "building" <=> since_build_start > QuietWindow)]_vars

\* C14, amended: the quiet window is measured from the return of the previous build
\* (the initial build or a rebuild): a notification read by the main loop triggers a
\* rebuild if and only if more than 5 seconds have elapsed since that build returned.
C14_QuietWindowFromEnd ==
    [][(wpc = "recv" /\ rx_queued' < rx_queued) =>
           (wpc' = "building" <=> since_build_end > QuietWindow)]_vars

\* A notification read more than 5 seconds after the previous rebuild started and
\* less than that after it returned did not trigger a rebuild.
C14_Witness ==
    /\ wpc = "recv"
    /\ last_outcome # "none"
    /\ last_read = "dropped"
    /\ since_build_start > QuietWindow
    /\ since_build_end <= QuietWindow

\* C15: at most one rebuild runs at any time; a notification sent during a rebuild
\* is only queued; a rebuild that has started ends by returning, never by being
\* cancelled, and no notification is read before it has returned.
C15_OneRebuildAtATime ==
    /\ [](in_flight <= 1 /\ (wpc = "building" => in_flight = 1))
    /\ [][rx_queued' < rx_queued => (wpc = "recv" /\ in_flight = 0)]_vars
    /\ [][(wpc = "building" /\ rx_queued' > rx_queued) =>
             (wpc' = "building" /\ in_flight' = in_flight)]_vars
    /\ [][(wpc = "building" /\ wpc' # "building") =>
             (wpc' = "recv" /\ last_outcome' # "none" /\ in_flight' = 0)]_vars

C15_Witness ==
    /\ wpc = "building"
    /\ last_outcome # "none"
    /\ rx_queued = MaxQueue
    /\ owed

\* C16: a notification that arrives while a rebuild is in flight is not lost: it is
\* eventually followed by a rebuild that starts after the notification arrived.
C16_NotificationNotLost == owed ~> ~owed

\* C17: a multi-target build runs the external build for the targets one at a time
\* in the given order, and the manifest lists its entries in that order; when the
\* external build fails for a target, no later target is built, build_package
\* fails, and neither a manifest nor an artifact is produced.
C17_TargetsInOrder ==
    /\ [](/\ Len(cargo_runs) <= Len(b_targets)
          /\ \A k \in 1..Len(cargo_runs) : cargo_runs[k] = b_targets[k]
          /\ Len(target_infos) <= Len(cargo_runs)
          /\ Len(cargo_runs) <= Len(target_infos) + 1)
    /\ [](info_json.written =>
             /\ Len(info_json.targets) = Len(b_targets)
             /\ \A k \in 1..Len(b_targets) :
                   Contains(info_json.targets[k].binary_path, "/" \o b_targets[k] \o "/"))
    /\ [](build_result = "BuildFailure" =>
             /\ bpc = "done"
             /\ Len(cargo_runs) = Len(target_infos) + 1
             /\ ~info_json.written
             /\ "info.json" \notin tree
             /\ artifact = output_before)
    /\ [][bpc # "done"]_vars

C17_Witness ==
    /\ bpc = "done"
    /\ build_result = "BuildFailure"
    /\ Len(b_targets) = 2
    /\ b_targets[1] # b_targets[2]
    /\ cargo_runs = <<b_targets[1], b_targets[2]>>
    /\ Len(target_infos) = 1

\* The number of colon-separated fields of a line, and the entry a line of three
\* fields stands for.
FieldCount(line) == 1 + Cardinality({i \in 1..Len(line) : CharAt(line, i) = ":"})

EntryOf(line) ==
    LET parts == Splitn3(line)
    IN  [offset |-> ParseUsize(parts[1]),
         length |-> ParseUsize(parts[2]),
         data   |-> Base64Decode(parts[3])]

IsEntry(line) ==
    /\ FieldCount(line) = 3
    /\ EntryOf(line).offset # ParseError
    /\ EntryOf(line).length # ParseError
    /\ EntryOf(line).data.ok

MaxOf(S) == CHOOSE m \in S : \A x \in S : x <= m

\* The length of the buffer once the entries of lines 1..k have been applied.
GrownLen(original, lines, k) ==
    MaxOf({Len(original)}
              \cup {EntryOf(lines[j]).offset + EntryOf(lines[j]).length : j \in 1..k})

\* The entries that write byte i (counted from 0): those whose data reaches i
\* within the buffer as it is grown for them.
Writers(original, lines, i) ==
    {k \in 1..Len(lines) :
        /\ EntryOf(lines[k]).offset <= i
        /\ i < EntryOf(lines[k]).offset + Len(EntryOf(lines[k]).data.bytes)
        /\ i < GrownLen(original, lines, k)}

\* C18: apply starts from a copy of the original and takes the entries in file
\* order; for each entry the buffer is grown with zero bytes to offset + length if
\* it is shorter, then the bytes from offset on are overwritten with the entry's
\* data.  So the output is as long as the longest of the original and the entries'
\* offset + length, a byte no entry writes keeps the original's value (zero beyond
\* the original), and a byte several entries write has the value of the last of
\* them in file order.
C18_ApplySemantics ==
    (ppc \in {"applied", "failed"} /\ \A k \in 1..Len(patch_file) : IsEntry(patch_file[k])) =>
        /\ ppc = "applied"
        /\ output_file.exists
        /\ Len(output_file.bytes) = GrownLen(old_data, patch_file, Len(patch_file))
        /\ \A i \in 0..(Len(output_file.bytes) - 1) :
              LET writers == Writers(old_data, patch_file, i)
              IN  output_file.bytes[i + 1] =
                      IF writers # {}
                      THEN LET e == EntryOf(patch_file[MaxOf(writers)])
                           IN  e.data.bytes[i - e.offset + 1]
                      ELSE IF i < Len(old_data) THEN old_data[i + 1] ELSE 0

\* Two overlapping entries, the second growing the buffer: byte 1 has the value the
\* second entry gives it.
C18_Witness ==
    /\ ppc = "applied"
    /\ old_data = <<200>>
    /\ patch_file = <<"0:2:AMg=", "1:2:AMg=">>
    /\ output_file = FileOf(<<0, 0, 200>>)

\* C19: a line whose number of colon-separated fields is not exactly three, fewer or
\* more, is skipped without failing the apply, and the well-formed lines before and
\* after it are applied: the outcome is that of the patch file without such lines.
C19_MalformedLinesSkipped ==
    (ppc \in {"applied", "failed"}) =>
        LET kept   == SelectSeq(patch_file, LAMBDA line : FieldCount(line) = 3)
            expect == ApplyPatch(old_data, kept)
        IN  expect.ok => (ppc = "applied" /\ output_file = FileOf(expect.bytes))

C21_UpdateUrlInManifest ==
    (info_json.written /\ opt_update_url.some) =>
        /\ <<"update_url", opt_update_url.val>> \in info_json.metadata
        /\ "auto_update" \in info_json.features

\* C22: the manifest is written last in payload assembly: when info.json is written
\* every binary its targets list is in the payload tree at its binary_path, every
\* declared asset has been copied, and the license step has run; nothing is written
\* to the output path before the manifest is written.
C22_ManifestWrittenLast ==
    /\ [][(~info_json.written /\ info_json'.written) =>
             /\ bpc = "manifest"
             /\ Len(info_json'.targets) = Len(b_targets)
             /\ \A k \in 1..Len(info_json'.targets) :
                   info_json'.targets[k].binary_path \in tree
             /\ \A k \in 1..Len(b_assets) : ("assets/" \o b_assets[k]) \in tree
             /\ artifact = output_before]_vars
    /\ [](artifact.run = "this" => (info_json.written /\ "info.json" \in tree))
    /\ [](info_json.written => bpc \notin {"start", "targets", "license", "manifest"})

C22_Witness ==
    /\ bpc = "archive"
    /\ info_json.written
    /\ Len(info_json.targets) = 2
    /\ b_assets = <<"assets">>
    /\ "assets/assets" \in tree
    /\ "LICENSE" \in tree
    /\ artifact = output_before

\* C23: the entries create_binary_patch writes for (A, B) have strictly increasing
\* offsets and do not overlap; each has length >= 1 and offset + length <= len(B),
\* its data has exactly `length` bytes and equals B[offset .. offset+length); and
\* every index i < len(B) that no entry covers has i < len(A) and A[i] = B[i].
C23_PatchStructure ==
    (ppc = "created") =>
        LET entries == PatchEntries(old_data, new_data, 0)
            covered == UNION {entries[k].offset..(entries[k].offset + entries[k].length - 1) :
                                 k \in 1..Len(entries)}
        IN  /\ patch_file = PatchLines(entries)
            /\ \A k \in 1..Len(entries) :
                  /\ entries[k].length >= 1
                  /\ entries[k].offset + entries[k].length <= Len(new_data)
                  /\ Len(entries[k].data) = entries[k].length
                  /\ entries[k].data =
                         SubSeq(new_data, entries[k].offset + 1,
                                entries[k].offset + entries[k].length)
            /\ \A k \in 1..(Len(entries) - 1) :
                  /\ entries[k].offset < entries[k + 1].offset
                  /\ entries[k].offset + entries[k].length <= entries[k + 1].offset
            /\ \A i \in (0..(Len(new_data) - 1)) \ covered :
                  i < Len(old_data) /\ old_data[i + 1] = new_data[i + 1]

\* Two entries with four untouched bytes between them.
C23_Witness ==
    /\ ppc = "created"
    /\ Len(patch_file) = 2
    /\ Len(old_data) = Len(new_data)
    /\ EntryOf(patch_file[1]).offset = 0
    /\ EntryOf(patch_file[2]).offset = 5

\* What uname -s and uname -m print on a host of a target triple.
HostOf(target) ==
    CASE target = "x86_64-unknown-linux-gnu"  -> <<"Linux", "x86_64">>
      [] target = "x86_64-unknown-linux-musl" -> <<"Linux", "x86_64">>
      [] target = "aarch64-apple-darwin"      -> <<"Darwin", "arm64">>
      [] target = "i686-unknown-linux-gnu"    -> <<"Linux", "i686">>
      [] target = "x86_64-pc-windows-gnu"     -> <<"MINGW64_NT-10.0", "x86_64">>

\* C24: for every supported target triple T, the (platform, arch) parse_target
\* writes into the manifest for T equals the (platform, arch) the launcher computes
\* on a host of that triple, so a package built for T resolves to its binary and
\* launches it when run on T.
C24_TaggingAgrees ==
    \A target \in TargetTriples :
        ( /\ lpc = "done"
          /\ payload.targets = <<TargetInfoOf(target)>>
          /\ <<uname_s, uname_m>> = HostOf(target) )
        => /\ PLATFORM = ParseTarget(target).platform
           /\ ARCH = ParseTarget(target).arch
           /\ launched.running
           /\ launched.path = RelPath(target)

\* C25: when a line of three fields has an offset or a length that is not a number,
\* or data that is not valid base64, apply_binary_patch returns an error, and after
\* an error the output file is as it was before the call: not created, not
\* modified, whatever valid lines came first.
C25_ApplyAllOrNothing ==
    (ppc \in {"applied", "failed"}) =>
        /\ (\E k \in 1..Len(patch_file) :
                FieldCount(patch_file[k]) = 3 /\ ~IsEntry(patch_file[k]))
               => ppc = "failed"
        /\ ppc = "failed" => output_file = output_file_before
        /\ ppc = "applied" => output_file.exists

\* A valid line that would change the output, then a line with bad base64, with an
\* output file already there.
C25_Witness ==
    /\ ppc = "failed"
    /\ Len(patch_file) = 2
    /\ IsEntry(patch_file[1])
    /\ patch_file[2] = "0:1:@@@@"
    /\ output_file_before = FileOf(<<0>>)
    /\ output_file = FileOf(<<0>>)

C27_TargetSelection ==
    (mpc = "called") =>
        b_targets = IF opt_targets.some THEN opt_targets.val
                    ELSE IF config_targets.some THEN config_targets.val
                    ELSE <<host_target>>

====
